---- MODULE Spec2Model ----
(***************************************************************************)
(* The command Router (main) and the Dispatcher (run_blender_script) of    *)
(* packages/media/3d-models/blender/blender_wrapper.py, as a state machine *)
(* of one process run: main starts from the parsed argparse Namespace,     *)
(* validates, stubs or dispatches, the Dispatcher probes the candidate     *)
(* paths, launches one child process and classifies what it did, and main  *)
(* prints one JSON line and exits.                                         *)
(*                                                                         *)
(* A Python str is a sequence of one-character strings, so that "the error *)
(* mentions X" is a substring test; a Python dict is a function on its     *)
(* keys; None is a value no str equals.                                    *)
(***************************************************************************)
EXTENDS Naturals, Sequences, FiniteSets, TLC

\* Command names compared by main (blender_wrapper.py:108-168)
\*   S_import_export = 'import_export'
S_import_export == <<"i","m","p","o","r","t","_","e","x","p","o","r","t">>
\*   S_cleanup = 'cleanup'
S_cleanup == <<"c","l","e","a","n","u","p">>
\*   S_stats = 'stats'
S_stats == <<"s","t","a","t","s">>
\*   S_optimize = 'optimize'
S_optimize == <<"o","p","t","i","m","i","z","e">>
\*   S_generate_lods = 'generate_lods'
S_generate_lods == <<"g","e","n","e","r","a","t","e","_","l","o","d","s">>
\*   S_bake_textures = 'bake_textures'
S_bake_textures == <<"b","a","k","e","_","t","e","x","t","u","r","e","s">>

\* Literals of the child command line (blender_wrapper.py:47-53, 114-115)
\*   S_automation_py = 'automation.py'
S_automation_py == <<"a","u","t","o","m","a","t","i","o","n",".","p","y">>
\*   S_background = '--background'
S_background == <<"-","-","b","a","c","k","g","r","o","u","n","d">>
\*   S_python = '--python'
S_python == <<"-","-","p","y","t","h","o","n">>
\*   S_sep = '--'
S_sep == <<"-","-">>
\*   S_obj_fbx = 'obj,fbx'
S_obj_fbx == <<"o","b","j",",","f","b","x">>

\* Candidate executable paths (blender_wrapper.py:28-31)
\*   S_usr_bin_blender = '/usr/bin/blender'
S_usr_bin_blender == <<"/","u","s","r","/","b","i","n","/","b","l","e","n","d","e","r">>
\*   S_usr_local_bin_blender = '/usr/local/bin/blender'
S_usr_local_bin_blender == <<"/","u","s","r","/","l","o","c","a","l","/","b","i","n","/","b","l","e","n","d","e","r">>
\*   S_mac_blender = '/Applications/Blender.app/Contents/MacOS/Blender'
S_mac_blender == <<"/","A","p","p","l","i","c","a","t","i","o","n","s","/","B","l","e","n","d","e","r",".","a","p","p","/","C","o","n","t","e","n","t","s","/","M","a","c","O","S","/","B","l","e","n","d","e","r">>
\*   S_win_blender = 'C:\\Program Files\\Blender Foundation\\Blender\\blender.exe'
S_win_blender == <<"C",":","\\","P","r","o","g","r","a","m"," ","F","i","l","e","s","\\","B","l","e","n","d","e","r"," ","F","o","u","n","d","a","t","i","o","n","\\","B","l","e","n","d","e","r","\\","b","l","e","n","d","e","r",".","e","x","e">>

\* Messages of the results
\*   E_not_found = 'Blender executable not found. Please install Blender or set BLENDER_PATH environment variable.'
E_not_found == <<"B","l","e","n","d","e","r"," ","e","x","e","c","u","t","a","b","l","e"," ","n","o","t"," ","f","o","u","n","d","."," ","P","l","e","a","s","e"," ","i","n","s","t","a","l","l"," ","B","l","e","n","d","e","r"," ","o","r"," ","s","e","t"," ","B","L","E","N","D","E","R","_","P","A","T","H"," ","e","n","v","i","r","o","n","m","e","n","t"," ","v","a","r","i","a","b","l","e",".">>
\*   E_timed_out = 'Blender operation timed out (5 minutes)'
E_timed_out == <<"B","l","e","n","d","e","r"," ","o","p","e","r","a","t","i","o","n"," ","t","i","m","e","d"," ","o","u","t"," ","(","5"," ","m","i","n","u","t","e","s",")">>
\*   E_missing_io = 'Missing --input or --output'
E_missing_io == <<"M","i","s","s","i","n","g"," ","-","-","i","n","p","u","t"," ","o","r"," ","-","-","o","u","t","p","u","t">>
\*   E_missing_i = 'Missing --input'
E_missing_i == <<"M","i","s","s","i","n","g"," ","-","-","i","n","p","u","t">>
\*   E_missing_iop = 'Missing --input, --output, or --platform'
E_missing_iop == <<"M","i","s","s","i","n","g"," ","-","-","i","n","p","u","t",","," ","-","-","o","u","t","p","u","t",","," ","o","r"," ","-","-","p","l","a","t","f","o","r","m">>
\*   E_unknown_prefix = 'Unknown command: '
E_unknown_prefix == <<"U","n","k","n","o","w","n"," ","c","o","m","m","a","n","d",":"," ">>
\*   M_optimize = 'Optimization script to be implemented'
M_optimize == <<"O","p","t","i","m","i","z","a","t","i","o","n"," ","s","c","r","i","p","t"," ","t","o"," ","b","e"," ","i","m","p","l","e","m","e","n","t","e","d">>
\*   M_generate_lods = 'LOD generation script to be implemented'
M_generate_lods == <<"L","O","D"," ","g","e","n","e","r","a","t","i","o","n"," ","s","c","r","i","p","t"," ","t","o"," ","b","e"," ","i","m","p","l","e","m","e","n","t","e","d">>
\*   M_bake_textures = 'Texture baking script to be implemented'
M_bake_textures == <<"T","e","x","t","u","r","e"," ","b","a","k","i","n","g"," ","s","c","r","i","p","t"," ","t","o"," ","b","e"," ","i","m","p","l","e","m","e","n","t","e","d">>

\* str(e) of the OSError a failed launch raises, up to the quoted path
\*   X_enoent = '[Errno 2] No such file or directory: '
X_enoent == <<"[","E","r","r","n","o"," ","2","]"," ","N","o"," ","s","u","c","h"," ","f","i","l","e"," ","o","r"," ","d","i","r","e","c","t","o","r","y",":"," ">>
\*   X_eacces = '[Errno 13] Permission denied: '
X_eacces == <<"[","E","r","r","n","o"," ","1","3","]"," ","P","e","r","m","i","s","s","i","o","n"," ","d","e","n","i","e","d",":"," ">>

\* JSON literals written by json.dumps
\*   J_true = 'true'
J_true == <<"t","r","u","e">>
\*   J_false = 'false'
J_false == <<"f","a","l","s","e">>
\*   J_null = 'null'
J_null == <<"n","u","l","l">>

\* Literals the worker script compares its arguments with (automation.py:341-403)
\*   A_sep = '--'
A_sep == <<"-","-">>
\*   A_import_export = 'import_export'
A_import_export == <<"i","m","p","o","r","t","_","e","x","p","o","r","t">>
\*   A_cleanup = 'cleanup'
A_cleanup == <<"c","l","e","a","n","u","p">>
\*   A_stats = 'stats'
A_stats == <<"s","t","a","t","s">>

\* Literals of the worker's steps (automation.py:353-371, 384-396)
\*   A_dot_obj = '.obj'
A_dot_obj == <<".","o","b","j">>
\*   A_dot_fbx = '.fbx'
A_dot_fbx == <<".","f","b","x">>
\*   A_comma = ','
A_comma == <<",">>
\*   A_obj = 'obj'
A_obj == <<"o","b","j">>
\*   A_fbx = 'fbx'
A_fbx == <<"f","b","x">>
\*   A_gltf = 'gltf'
A_gltf == <<"g","l","t","f">>
\*   A_glb = 'glb'
A_glb == <<"g","l","b">>
\*   A_dae = 'dae'
A_dae == <<"d","a","e">>

\* Messages the worker writes on standard error (automation.py:54-416)
\*   A_usage = 'Usage: blender --background --python automation.py -- <command> [args...]'
A_usage == <<"U","s","a","g","e",":"," ","b","l","e","n","d","e","r"," ","-","-","b","a","c","k","g","r","o","u","n","d"," ","-","-","p","y","t","h","o","n"," ","a","u","t","o","m","a","t","i","o","n",".","p","y"," ","-","-"," ","<","c","o","m","m","a","n","d",">"," ","[","a","r","g","s",".",".",".","]">>
\*   A_unknown_command = 'Unknown command: '
A_unknown_command == <<"U","n","k","n","o","w","n"," ","c","o","m","m","a","n","d",":"," ">>
\*   A_err_import_obj = 'Error importing OBJ: '
A_err_import_obj == <<"E","r","r","o","r"," ","i","m","p","o","r","t","i","n","g"," ","O","B","J",":"," ">>
\*   A_err_import_fbx = 'Error importing FBX: '
A_err_import_fbx == <<"E","r","r","o","r"," ","i","m","p","o","r","t","i","n","g"," ","F","B","X",":"," ">>
\*   A_err_export_obj = 'Error exporting OBJ: '
A_err_export_obj == <<"E","r","r","o","r"," ","e","x","p","o","r","t","i","n","g"," ","O","B","J",":"," ">>
\*   A_err_export_fbx = 'Error exporting FBX: '
A_err_export_fbx == <<"E","r","r","o","r"," ","e","x","p","o","r","t","i","n","g"," ","F","B","X",":"," ">>
\*   A_err_export_gltf = 'Error exporting GLTF: '
A_err_export_gltf == <<"E","r","r","o","r"," ","e","x","p","o","r","t","i","n","g"," ","G","L","T","F",":"," ">>
\*   A_err_export_dae = 'Error exporting DAE: '
A_err_export_dae == <<"E","r","r","o","r"," ","e","x","p","o","r","t","i","n","g"," ","D","A","E",":"," ">>
\*   A_err_cleanup = 'Error cleaning mesh: '
A_err_cleanup == <<"E","r","r","o","r"," ","c","l","e","a","n","i","n","g"," ","m","e","s","h",":"," ">>
\*   A_err_unwrap = 'Error unwrapping UVs: '
A_err_unwrap == <<"E","r","r","o","r"," ","u","n","w","r","a","p","p","i","n","g"," ","U","V","s",":"," ">>

\* json.dumps(stats) of the worker (automation.py:252-278, 376) for a scene
\* without meshes and for a scene that holds one cube
\*   A_stats_none = '{"mesh_count": 0, "total_vertices": 0, "total_faces": 0, "total_triangles": 0, "meshes": []}'
A_stats_none == <<"{","\"","m","e","s","h","_","c","o","u","n","t","\"",":"," ","0",","," ","\"","t","o","t","a","l","_","v","e","r","t","i","c","e","s","\"",":"," ","0",","," ","\"","t","o","t","a","l","_","f","a","c","e","s","\"",":"," ","0",","," ","\"","t","o","t","a","l","_","t","r","i","a","n","g","l","e","s","\"",":"," ","0",","," ","\"","m","e","s","h","e","s","\"",":"," ","[","]","}">>
\*   A_stats_cube = '{"mesh_count": 1, "total_vertices": 8, "total_faces": 6, "total_triangles": 12, "meshes": [{"name": "Cube", "vertices": 8, "faces": 6, "triangles": 12}]}'
A_stats_cube == <<"{","\"","m","e","s","h","_","c","o","u","n","t","\"",":"," ","1",","," ","\"","t","o","t","a","l","_","v","e","r","t","i","c","e","s","\"",":"," ","8",","," ","\"","t","o","t","a","l","_","f","a","c","e","s","\"",":"," ","6",","," ","\"","t","o","t","a","l","_","t","r","i","a","n","g","l","e","s","\"",":"," ","1","2",","," ","\"","m","e","s","h","e","s","\"",":"," ","[","{","\"","n","a","m","e","\"",":"," ","\"","C","u","b","e","\"",","," ","\"","v","e","r","t","i","c","e","s","\"",":"," ","8",","," ","\"","f","a","c","e","s","\"",":"," ","6",","," ","\"","t","r","i","a","n","g","l","e","s","\"",":"," ","1","2","}","]","}">>

\* Literals of calculate_land_impact (lod_generator.py:205-214)
\*   L_lod_sep = '_lod'
L_lod_sep == <<"_","l","o","d">>
\*   L_lod = 'lod'
L_lod == <<"l","o","d">>
\*   L_lod3 = 'lod3'
L_lod3 == <<"l","o","d","3">>

\* Inputs: command names outside the supported six
\*   In_frobnicate = 'frobnicate'
In_frobnicate == <<"f","r","o","b","n","i","c","a","t","e">>
\*   In_Stats = 'Stats'
In_Stats == <<"S","t","a","t","s">>

\* Inputs: option values
\*   In_model_obj = 'model.obj'
In_model_obj == <<"m","o","d","e","l",".","o","b","j">>
\*   In_out = 'out'
In_out == <<"o","u","t">>
\*   In_glb = 'glb'
In_glb == <<"g","l","b">>
\*   In_vrchat_pc = 'vrchat_pc'
In_vrchat_pc == <<"v","r","c","h","a","t","_","p","c">>

\* Inputs: files the worker is given, the formats asked for, the text of a
\* failed Blender operator, the traceback of an uncaught exception, and what
\* Blender itself writes before and after the script's output
\*   In_model_fbx = 'model.fbx'
In_model_fbx == <<"m","o","d","e","l",".","f","b","x">>
\*   In_model_stl = 'model.stl'
In_model_stl == <<"m","o","d","e","l",".","s","t","l">>
\*   In_out_obj = 'out.obj'
In_out_obj == <<"o","u","t",".","o","b","j">>
\*   In_obj_dae_xyz = 'obj,dae,xyz'
In_obj_dae_xyz == <<"o","b","j",",","d","a","e",",","x","y","z">>
\*   In_op_failed = 'operator failed'
In_op_failed == <<"o","p","e","r","a","t","o","r"," ","f","a","i","l","e","d">>
\*   In_traceback = 'Traceback (most recent call last): IndexError'
In_traceback == <<"T","r","a","c","e","b","a","c","k"," ","(","m","o","s","t"," ","r","e","c","e","n","t"," ","c","a","l","l"," ","l","a","s","t",")",":"," ","I","n","d","e","x","E","r","r","o","r">>
\*   In_blender_banner = 'Blender 3.6\n'
In_blender_banner == <<"B","l","e","n","d","e","r"," ","3",".","6","\n">>
\*   In_blender_quit = 'Blender quit\n'
In_blender_quit == <<"B","l","e","n","d","e","r"," ","q","u","i","t","\n">>
\*   In_name_Light = 'Light'
In_name_Light == <<"L","i","g","h","t">>
\*   In_name_Camera = 'Camera'
In_name_Camera == <<"C","a","m","e","r","a">>
\*   In_name_Cube = 'Cube'
In_name_Cube == <<"C","u","b","e">>

\* Inputs: names of objects that are levels of detail
\*   In_Cube_lod0 = 'Cube_lod0'
In_Cube_lod0 == <<"C","u","b","e","_","l","o","d","0">>
\*   In_Cube_lod3 = 'Cube_lod3'
In_Cube_lod3 == <<"C","u","b","e","_","l","o","d","3">>

\* Inputs: the directory that holds the wrapper and its scripts
\*   In_module_dir = '/srv/blender'
In_module_dir == <<"/","s","r","v","/","b","l","e","n","d","e","r">>

\* Inputs: a non-default install path, for BLENDER_PATH
\*   In_opt_blender = '/opt/blender/blender'
In_opt_blender == <<"/","o","p","t","/","b","l","e","n","d","e","r","/","b","l","e","n","d","e","r">>

\* Inputs: what a child process writes
\*   In_done = 'done'
In_done == <<"d","o","n","e">>
\*   In_stats_json = '{"mesh_count": 2}'
In_stats_json == <<"{","\"","m","e","s","h","_","c","o","u","n","t","\"",":"," ","2","}">>
\*   In_null = 'null'
In_null == <<"n","u","l","l">>
\*   In_banner_json = 'Blender 3.6\n{"mesh_count": 2}'
In_banner_json == <<"B","l","e","n","d","e","r"," ","3",".","6","\n","{","\"","m","e","s","h","_","c","o","u","n","t","\"",":"," ","2","}">>
\*   In_boom = 'boom'
In_boom == <<"b","o","o","m">>

\* Words the claims look for in a message
\*   W_not_found = 'not found'
W_not_found == <<"n","o","t"," ","f","o","u","n","d">>
\*   W_timed_out = 'timed out'
W_timed_out == <<"t","i","m","e","d"," ","o","u","t">>
\*   W_to_be_implemented = 'to be implemented'
W_to_be_implemented == <<"t","o"," ","b","e"," ","i","m","p","l","e","m","e","n","t","e","d">>
\*   W_input = 'input'
W_input == <<"i","n","p","u","t">>
\*   W_output = 'output'
W_output == <<"o","u","t","p","u","t">>
\*   W_unknown_command = 'Unknown command: '
W_unknown_command == <<"U","n","k","n","o","w","n"," ","c","o","m","m","a","n","d",":"," ">>
\*   W_Optimization = 'Optimization'
W_Optimization == <<"O","p","t","i","m","i","z","a","t","i","o","n">>
\*   W_LOD_generation = 'LOD generation'
W_LOD_generation == <<"L","O","D"," ","g","e","n","e","r","a","t","i","o","n">>
\*   W_Texture_baking = 'Texture baking'
W_Texture_baking == <<"T","e","x","t","u","r","e"," ","b","a","k","i","n","g">>
\*   W_background = '--background'
W_background == <<"-","-","b","a","c","k","g","r","o","u","n","d">>
\*   W_python = '--python'
W_python == <<"-","-","p","y","t","h","o","n">>
\*   W_separator = '--'
W_separator == <<"-","-">>
\*   W_automation_py = 'automation.py'
W_automation_py == <<"a","u","t","o","m","a","t","i","o","n",".","p","y">>
\*   W_obj_fbx = 'obj,fbx'
W_obj_fbx == <<"o","b","j",",","f","b","x">>
\*   W_platform = 'platform'
W_platform == <<"p","l","a","t","f","o","r","m">>

-----------------------------------------------------------------------------
\* Python values

\* None, for a variable that otherwise holds a str: no sequence of characters.
None == <<"None">>

\* None, for a variable that otherwise holds a dict.
NoneDict == [None |-> TRUE]

\* bool(v) of an Optional[str]: None and '' are falsy ("not args.input").
Truthy(v) == v # None /\ v # <<>>

\* t in s, for two str.
Contains(s, t) ==
    \E i \in 0..(Len(s) - Len(t)) : SubSeq(s, i + 1, i + Len(t)) = t

\* The set of items of a list.
Items(s) == {s[i] : i \in DOMAIN s}

-----------------------------------------------------------------------------
\* json.dumps and json.loads

\* The order in which every dict literal of the wrapper inserts its keys;
\* json.dumps writes the members in insertion order.
KeyOrder == <<"success", "data", "stdout", "error", "message", "stderr">>

\* The escape json.dumps writes for one character of a str.
EscapeChar(c) ==
    IF c = "\"" THEN <<"\\", "\"">>
    ELSE IF c = "\\" THEN <<"\\", "\\">>
    ELSE IF c = "\n" THEN <<"\\", "n">>
    ELSE <<c>>

\* The escapes of the characters of s, one after the other (the halves of s
\* are escaped apart, which keeps the evaluation shallow).
RECURSIVE Escape(_)
Escape(s) ==
    IF s = <<>> THEN <<>>
    ELSE IF Len(s) = 1 THEN EscapeChar(s[1])
    ELSE LET mid == Len(s) \div 2
         IN  Escape(SubSeq(s, 1, mid)) \o Escape(SubSeq(s, mid + 1, Len(s)))

\* The JSON text of a str: the escaped characters between double quotes.
JsonString(s) == <<"\"">> \o Escape(s) \o <<"\"">>

\* A Blender scene is the sequence of its objects; of an object the scripts
\* read its type, its name, the number of its vertices and, for each of its
\* polygons, the number of that polygon's vertices.
Cube ==
    [type |-> "MESH", name |-> In_name_Cube, vertices |-> 8,
     polygons |-> <<4, 4, 4, 4, 4, 4>>]

\* The scene after _setup_scene deleted every object, and the scene after a
\* file that holds one cube was imported into it.
EmptyScene == <<>>
ImportedScene == <<Cube>>

RECURSIVE Sum(_)
Sum(ns) == IF ns = <<>> THEN 0 ELSE Head(ns) + Sum(Tail(ns))

\* automation.py, get_mesh_stats: a polygon of three vertices counts one
\* triangle, one of n vertices counts n - 2.
Triangles(polygons) ==
    Sum([i \in 1..Len(polygons) |->
            IF polygons[i] = 3 THEN 1 ELSE polygons[i] - 2])

\* automation.py, get_mesh_stats: the totals over the MESH objects of the
\* scene and one entry for each of them.
get_mesh_stats(scene) ==
    LET IsMesh(o) == o.type = "MESH"
        found == SelectSeq(scene, IsMesh)
        meshes == [i \in 1..Len(found) |->
                     [name |-> found[i].name,
                      vertices |-> found[i].vertices,
                      faces |-> Len(found[i].polygons),
                      triangles |-> Triangles(found[i].polygons)]]
    IN  [mesh_count |-> Len(found),
         total_vertices |-> Sum([i \in 1..Len(meshes) |-> meshes[i].vertices]),
         total_faces |-> Sum([i \in 1..Len(meshes) |-> meshes[i].faces]),
         total_triangles |->
             Sum([i \in 1..Len(meshes) |-> meshes[i].triangles]),
         meshes |-> meshes]

\* The values json.loads gives for the texts a child is let to write here: a
\* statistics object, null, and the statistics the worker prints for the two
\* scenes. Any other text is no JSON document (JSONDecodeError).
PyStats == [py |-> "dict", mesh_count |-> 2]
PyNoneData == [py |-> "None"]

JsonDocs ==
    {<<In_stats_json, PyStats>>, <<In_null, PyNoneData>>,
     <<A_stats_none, get_mesh_stats(EmptyScene)>>,
     <<A_stats_cube, get_mesh_stats(ImportedScene)>>}

\* json.loads skips the whitespace around the document.
Whitespace == {" ", "\n", "\t", "\r"}

StripWs(text) ==
    LET keep == {i \in DOMAIN text : text[i] \notin Whitespace}
    IN  IF keep = {} THEN <<>>
        ELSE SubSeq(text,
                    CHOOSE i \in keep : \A j \in keep : i <= j,
                    CHOOSE i \in keep : \A j \in keep : j <= i)

IsJson(text) == \E d \in JsonDocs : d[1] = StripWs(text)

json_loads(text) == (CHOOSE d \in JsonDocs : d[1] = StripWs(text))[2]

\* The JSON text of a parsed value.
JsonData(v) == (CHOOSE d \in JsonDocs : d[2] = v)[1]

\* The JSON text of the value under key k: success is a bool, data a parsed
\* value, every other key of a result holds a str.
JsonValue(k, v) ==
    IF k = "success" THEN (IF v THEN J_true ELSE J_false)
    ELSE IF k = "data" THEN JsonData(v)
    ELSE JsonString(v)

\* json.dumps(d) of a result dict: its members, in insertion order, each a
\* key and the JSON text of its value.
json_dumps(d) ==
    LET Has(k) == k \in DOMAIN d
        keys == SelectSeq(KeyOrder, Has)
    IN  [i \in 1..Len(keys) |-> <<keys[i], JsonValue(keys[i], d[keys[i]])>>]

-----------------------------------------------------------------------------
\* The state of one run of the wrapper

VARIABLES
    args,         \* the Namespace parse_args returned (the fields main reads)
    fs,           \* the executable paths that exist on the filesystem now
    environ,      \* the value of BLENDER_PATH in the environment, or None
    pc,           \* where the process is
    result,       \* main's result
    out,          \* the lines printed on standard output
    exit_status,  \* <<>> while the process runs, <<code>> once it has exited
    calls,        \* the calls of run_blender_script made so far
    script_name,  \* run_blender_script's parameter script_name
    call_args,    \* run_blender_script's parameter args
    blender_exe,  \* run_blender_script's local blender_exe
    cmd,          \* run_blender_script's local cmd
    children,     \* the child processes started, each with what it will do
    running,      \* the children started and neither finished nor killed yet
    exc,          \* the exception raised inside the try block, or NoneDict
    ret,          \* the value run_blender_script returned, or NoneDict
    probed,       \* history: the paths that existed when the probe loop ran
    automation,   \* the run of automation.py inside the child, when it is followed
    lod           \* a call of LODGenerator.calculate_land_impact, when one is followed

vars == <<args, fs, environ, pc, result, out, exit_status, calls, script_name,
          call_args, blender_exe, cmd, children, running, exc, ret,
          probed, automation, lod>>

mainVars == <<result, out, exit_status>>
callVars == <<calls, script_name, call_args>>
dispVars == <<blender_exe, cmd, children, running, exc, ret, probed>>

-----------------------------------------------------------------------------
\* Constants of the code

\* blender_paths, in the order the loop probes them.
blender_paths ==
    <<S_usr_bin_blender, S_usr_local_bin_blender, S_mac_blender, S_win_blender>>

\* timeout=300 of subprocess.run, in seconds.
Timeout == 300

\* The six command names main has a branch for.
Commands ==
    {S_import_export, S_cleanup, S_stats, S_optimize, S_generate_lods,
     S_bake_textures}

\* The exception classes that are subclasses of Exception: the clause
\* "except Exception" catches these.
ExceptionClasses ==
    {"TimeoutExpired", "FileNotFoundError", "PermissionError"}

-----------------------------------------------------------------------------
\* The inputs

CommandNames == Commands \cup {In_frobnicate, In_Stats}

\* An option is not given (None), given empty, or given a value.
Namespaces ==
    [command : CommandNames,
     input : {None, <<>>, In_model_obj},
     output : {None, <<>>, In_out},
     formats : {None, <<>>, In_glb},
     platform : {None, In_vrchat_pc}]

\* No worker script is followed; no call of calculate_land_impact is followed.
NoScript == [at |-> "none"]
NoCall == [at |-> "none"]

AllPaths == Items(blender_paths) \cup {In_opt_blender}

\* At most MaxExisting of the paths exist at once.
MaxExisting == 2

Filesystems == {s \in SUBSET AllPaths : Cardinality(s) <= MaxExisting}

\* What a child writes on its standard output and on its standard error.
ChildTexts == {<<>>, In_done, In_stats_json, In_null, In_banner_json}
ErrTexts == {<<>>, In_boom}

\* A child runs for a second, or for longer than the timeout.
Durations == {1, Timeout + 1}

\* What a started child does: how long it runs and, if it is let to finish,
\* its exit code and output; what it has written by the time it is killed.
Behaviours ==
    [duration : Durations, returncode : {0, 1},
     stdout : ChildTexts, stderr : ErrTexts]

Init ==
    /\ args \in Namespaces
    /\ fs \in Filesystems
    /\ environ \in {None, In_opt_blender}
    /\ pc = "main"
    /\ result = NoneDict
    /\ out = <<>>
    /\ exit_status = <<>>
    /\ calls = 0
    /\ script_name = None
    /\ call_args = <<>>
    /\ blender_exe = None
    /\ cmd = <<>>
    /\ children = <<>>
    /\ running = {}
    /\ exc = NoneDict
    /\ ret = NoneDict
    /\ probed = {}
    /\ automation = NoScript
    /\ lod = NoCall

-----------------------------------------------------------------------------
\* main: the branches of the if/elif chain

\* print(json.dumps({'success': False, 'error': msg})); sys.exit(1)
Reject(msg) ==
    /\ out' = Append(out, json_dumps([success |-> FALSE, error |-> msg]))
    /\ exit_status' = <<1>>
    /\ pc' = "exited"
    /\ UNCHANGED <<result, callVars>>

\* result = run_blender_script(script, a): the call.
Call(script, a) ==
    /\ calls' = calls + 1
    /\ script_name' = script
    /\ call_args' = a
    /\ pc' = "probe"
    /\ UNCHANGED mainVars

\* result = {...}: a result main builds itself.
Assign(r) ==
    /\ result' = r
    /\ pc' = "output"
    /\ UNCHANGED <<out, exit_status, callVars>>

\* Mutant of MainImportExport: the output path is passed before the input.
MainImportExport_PathsSwapped ==
    /\ pc = "main"
    /\ args.command = S_import_export
    /\ IF ~Truthy(args.input) \/ ~Truthy(args.output)
       THEN Reject(E_missing_io)
       ELSE LET formats == IF Truthy(args.formats) THEN args.formats
                           ELSE S_obj_fbx
            IN  Call(S_automation_py,
                     <<S_import_export, args.output, args.input, formats>>)
    /\ UNCHANGED <<automation, lod, args, fs, environ, dispVars>>

MainImportExport ==
    /\ pc = "main"
    /\ args.command = S_import_export
    /\ IF ~Truthy(args.input) \/ ~Truthy(args.output)
       THEN Reject(E_missing_io)
       ELSE LET formats == IF Truthy(args.formats) THEN args.formats
                           ELSE S_obj_fbx
            IN  Call(S_automation_py,
                     <<S_import_export, args.input, args.output, formats>>)
    /\ UNCHANGED <<automation, lod, args, fs, environ, dispVars>>

\* Mutant of MainCleanup: the output path is not passed on.
MainCleanup_NoOutput ==
    /\ pc = "main"
    /\ args.command = S_cleanup
    /\ IF ~Truthy(args.input) \/ ~Truthy(args.output)
       THEN Reject(E_missing_io)
       ELSE Call(S_automation_py, <<S_cleanup, args.input>>)
    /\ UNCHANGED <<automation, lod, args, fs, environ, dispVars>>

MainCleanup ==
    /\ pc = "main"
    /\ args.command = S_cleanup
    /\ IF ~Truthy(args.input) \/ ~Truthy(args.output)
       THEN Reject(E_missing_io)
       ELSE Call(S_automation_py, <<S_cleanup, args.input, args.output>>)
    /\ UNCHANGED <<automation, lod, args, fs, environ, dispVars>>

\* Mutant of MainStats: the check of --input is left out.
MainStats_Unchecked ==
    /\ pc = "main"
    /\ args.command = S_stats
    /\ Call(S_automation_py, <<S_stats, args.input>>)
    /\ UNCHANGED <<automation, lod, args, fs, environ, dispVars>>

MainStats ==
    /\ pc = "main"
    /\ args.command = S_stats
    /\ IF ~Truthy(args.input)
       THEN Reject(E_missing_i)
       ELSE Call(S_automation_py, <<S_stats, args.input>>)
    /\ UNCHANGED <<automation, lod, args, fs, environ, dispVars>>

MainOptimize ==
    /\ pc = "main"
    /\ args.command = S_optimize
    /\ IF ~Truthy(args.input) \/ ~Truthy(args.output) \/ ~Truthy(args.platform)
       THEN Reject(E_missing_iop)
       ELSE Assign([success |-> TRUE, message |-> M_optimize])
    /\ UNCHANGED <<automation, lod, args, fs, environ, dispVars>>

\* Mutant of MainGenerateLods: the command is dispatched like cleanup.
MainGenerateLods_Dispatched ==
    /\ pc = "main"
    /\ args.command = S_generate_lods
    /\ IF ~Truthy(args.input) \/ ~Truthy(args.output)
       THEN Reject(E_missing_io)
       ELSE Call(S_automation_py, <<S_generate_lods, args.input, args.output>>)
    /\ UNCHANGED <<automation, lod, args, fs, environ, dispVars>>

MainGenerateLods ==
    /\ pc = "main"
    /\ args.command = S_generate_lods
    /\ IF ~Truthy(args.input) \/ ~Truthy(args.output)
       THEN Reject(E_missing_io)
       ELSE Assign([success |-> TRUE, message |-> M_generate_lods])
    /\ UNCHANGED <<automation, lod, args, fs, environ, dispVars>>

MainBakeTextures ==
    /\ pc = "main"
    /\ args.command = S_bake_textures
    /\ IF ~Truthy(args.input) \/ ~Truthy(args.output)
       THEN Reject(E_missing_io)
       ELSE Assign([success |-> TRUE, message |-> M_bake_textures])
    /\ UNCHANGED <<automation, lod, args, fs, environ, dispVars>>

\* Mutant of MainUnknown: the message leaves the name out.
MainUnknown_Nameless ==
    /\ pc = "main"
    /\ args.command \notin Commands
    /\ Assign([success |-> FALSE, error |-> E_unknown_prefix])
    /\ UNCHANGED <<automation, lod, args, fs, environ, dispVars>>

MainUnknown ==
    /\ pc = "main"
    /\ args.command \notin Commands
    /\ Assign([success |-> FALSE, error |-> E_unknown_prefix \o args.command])
    /\ UNCHANGED <<automation, lod, args, fs, environ, dispVars>>

\* Mutant of MainReturn: only the success flag of the returned value is kept.
MainReturn_FlagOnly ==
    /\ pc = "return"
    /\ result' = [success |-> ret.success]
    /\ pc' = "output"
    /\ UNCHANGED <<automation, lod, args, fs, environ, out, exit_status, callVars, dispVars>>

\* Mutant of MainReturn: a failed call is made again.
MainReturn_Retry ==
    /\ pc = "return"
    /\ result' = ret
    /\ pc' = IF ret.success THEN "output" ELSE "main"
    /\ UNCHANGED <<automation, lod, args, fs, environ, out, exit_status, callVars, dispVars>>

\* result = run_blender_script(...): the assignment, once the call returns.
MainReturn ==
    /\ pc = "return"
    /\ result' = ret
    /\ pc' = "output"
    /\ UNCHANGED <<automation, lod, args, fs, environ, out, exit_status, callVars, dispVars>>

\* Mutant of MainOutput: the exit code is always 0.
MainOutput_ExitZero ==
    /\ pc = "output"
    /\ out' = Append(out, json_dumps(result))
    /\ exit_status' = <<0>>
    /\ pc' = "exited"
    /\ UNCHANGED <<automation, lod, args, fs, environ, result, callVars, dispVars>>

\* print(json.dumps(result)); sys.exit(0 if result.get('success') else 1)
MainOutput ==
    /\ pc = "output"
    /\ out' = Append(out, json_dumps(result))
    /\ exit_status' = <<IF result.success THEN 0 ELSE 1>>
    /\ pc' = "exited"
    /\ UNCHANGED <<automation, lod, args, fs, environ, result, callVars, dispVars>>

-----------------------------------------------------------------------------
\* run_blender_script

\* Mutant of FirstExisting: the loop has no break, the last path that exists
\* is kept.
FirstExisting_NoBreak(paths, existing) ==
    LET found == {i \in DOMAIN paths : paths[i] \in existing}
    IN  IF found = {} THEN None
        ELSE paths[CHOOSE i \in found : \A j \in found : j <= i]

\* Mutant of FirstExisting: the first path is taken without the exists() test.
FirstExisting_Unprobed(paths, existing) ==
    IF paths = <<>> THEN None ELSE Head(paths)

\* The probe loop: the first path of the list that exists, or None.
RECURSIVE FirstExisting(_, _)
FirstExisting(paths, existing) ==
    IF paths = <<>> THEN None
    ELSE IF Head(paths) \in existing THEN Head(paths)
    ELSE FirstExisting(Tail(paths), existing)

\* str(Path(__file__).parent / script_name): the script beside the wrapper.
ScriptPath(name) == In_module_dir \o <<"/">> \o name

\* The probe, then either the not-found result or the command line.
Probe ==
    /\ pc = "probe"
    /\ probed' = fs
    /\ blender_exe' = FirstExisting(blender_paths, fs)
    /\ IF ~Truthy(blender_exe')
       THEN /\ ret' = [success |-> FALSE, error |-> E_not_found]
            /\ pc' = "return"
            /\ UNCHANGED cmd
       ELSE /\ cmd' = <<blender_exe', S_background, S_python,
                        ScriptPath(script_name), S_sep>> \o call_args
            /\ pc' = "run"
            /\ UNCHANGED ret
    /\ UNCHANGED <<automation, lod, args, fs, environ, mainVars, callVars, children, running,
                   exc>>

\* The environment, between the probe and the launch: the binary the probe
\* found is removed.
BinaryDisappears ==
    /\ pc = "run"
    /\ blender_exe \in fs
    /\ fs' = fs \ {blender_exe}
    /\ UNCHANGED <<automation, lod, args, environ, pc, mainVars, callVars, dispVars>>

\* automation.py, main: the arguments the script takes from sys.argv, which
\* under Blender is the whole command line: those after the first '--', or
\* all but the first when there is no '--'.
WorkerArgs(argv) ==
    IF \E i \in DOMAIN argv : argv[i] = A_sep
    THEN LET first == CHOOSE i \in DOMAIN argv :
                         /\ argv[i] = A_sep
                         /\ \A j \in 1..(i - 1) : argv[j] # A_sep
         IN  SubSeq(argv, first + 1, Len(argv))
    ELSE Tail(argv)

\* automation.py, main: how the script's reading of its arguments ends: the
\* usage exit, an IndexError at a positional argument that is not there, the
\* unknown-command exit, or a branch that runs.
WorkerOutcome(argv) ==
    IF Len(argv) < 2 THEN "usage"
    ELSE LET a == WorkerArgs(argv)
         IN  IF Len(a) < 1 THEN "index_error"
             ELSE IF a[1] = A_import_export
             THEN IF Len(a) < 3 THEN "index_error" ELSE "ok"
             ELSE IF a[1] = A_cleanup
             THEN IF Len(a) < 3 THEN "index_error" ELSE "ok"
             ELSE IF a[1] = A_stats
             THEN IF Len(a) < 2 THEN "index_error" ELSE "ok"
             ELSE "unknown_command"

\* str(e) of the OSError raised for path p.
OSErrorText(prefix, p) == prefix \o <<"'">> \o p \o <<"'">>

\* subprocess.run starts the child: the launch fails with an OSError when the
\* binary is gone or may not be executed, and otherwise a child runs.
Launch ==
    /\ pc = "run"
    /\ \/ /\ cmd[1] \notin fs
          /\ exc' = [type |-> "FileNotFoundError",
                     msg |-> OSErrorText(X_enoent, cmd[1])]
          /\ pc' = "except"
          /\ UNCHANGED <<children, running>>
       \/ /\ cmd[1] \in fs
          /\ exc' = [type |-> "PermissionError",
                     msg |-> OSErrorText(X_eacces, cmd[1])]
          /\ pc' = "except"
          /\ UNCHANGED <<children, running>>
       \/ /\ cmd[1] \in fs
          /\ \E b \in Behaviours :
                children' = Append(children,
                    [argv |-> cmd, worker |-> WorkerOutcome(cmd), does |-> b])
          /\ running' = running \cup {Len(children) + 1}
          /\ pc' = "wait"
          /\ UNCHANGED exc
    /\ UNCHANGED <<automation, lod, args, fs, environ, mainVars, callVars, blender_exe, cmd,
                   ret, probed>>

\* Mutant of Wait: the child is started and not waited for.
Wait_NotAwaited ==
    /\ pc = "wait"
    /\ LET child == children[Len(children)].does
       IN  IF child.duration > Timeout
           THEN /\ exc' = [type |-> "TimeoutExpired", msg |-> <<>>]
                /\ pc' = "except"
           ELSE /\ pc' = "classify"
                /\ UNCHANGED exc
    /\ UNCHANGED <<automation, lod, args, fs, environ, mainVars, callVars, blender_exe, cmd,
                   children, running, ret, probed>>

\* subprocess.run waits: the child finishes within the timeout, or is killed
\* and TimeoutExpired is raised.
Wait ==
    /\ pc = "wait"
    /\ LET child == children[Len(children)].does
       IN  IF child.duration > Timeout
           THEN /\ exc' = [type |-> "TimeoutExpired", msg |-> <<>>]
                /\ pc' = "except"
           ELSE /\ pc' = "classify"
                /\ UNCHANGED exc
    /\ running' = running \ {Len(children)}
    /\ UNCHANGED <<automation, lod, args, fs, environ, mainVars, callVars, blender_exe, cmd,
                   children, ret, probed>>

\* Mutant of Classify: what a failed child wrote on stdout is dropped.
Classify_DropsFailedOutput ==
    /\ pc = "classify"
    /\ LET child == children[Len(children)].does
       IN  ret' = IF child.returncode # 0
                  THEN [success |-> FALSE, stderr |-> child.stderr]
                  ELSE IF IsJson(child.stdout)
                  THEN [success |-> TRUE,
                        data |-> json_loads(child.stdout),
                        stderr |-> child.stderr]
                  ELSE [success |-> TRUE,
                        stdout |-> child.stdout,
                        stderr |-> child.stderr]
    /\ pc' = "return"
    /\ UNCHANGED <<automation, lod, args, fs, environ, mainVars, callVars, blender_exe, cmd,
                   children, running, exc, probed>>

\* Mutant of Classify: stderr is attached only when the child failed.
Classify_StderrOnFailure ==
    /\ pc = "classify"
    /\ LET child == children[Len(children)].does
       IN  ret' = IF child.returncode # 0
                  THEN [success |-> FALSE,
                        stdout |-> child.stdout,
                        stderr |-> child.stderr]
                  ELSE IF IsJson(child.stdout)
                  THEN [success |-> TRUE, data |-> json_loads(child.stdout)]
                  ELSE [success |-> TRUE, stdout |-> child.stdout]
    /\ pc' = "return"
    /\ UNCHANGED <<automation, lod, args, fs, environ, mainVars, callVars, blender_exe, cmd,
                   children, running, exc, probed>>

\* Mutant of Classify: output that parses as JSON counts as success.
Classify_ParsedIsSuccess ==
    /\ pc = "classify"
    /\ LET child == children[Len(children)].does
       IN  ret' = IF IsJson(child.stdout)
                  THEN [success |-> TRUE,
                        data |-> json_loads(child.stdout),
                        stderr |-> child.stderr]
                  ELSE [success |-> child.returncode = 0,
                        stdout |-> child.stdout,
                        stderr |-> child.stderr]
    /\ pc' = "return"
    /\ UNCHANGED <<automation, lod, args, fs, environ, mainVars, callVars, blender_exe, cmd,
                   children, running, exc, probed>>

\* Mutant of Classify: the raw text is kept beside the parsed value.
Classify_KeepsRawText ==
    /\ pc = "classify"
    /\ LET child == children[Len(children)].does
       IN  ret' = IF IsJson(child.stdout)
                  THEN [success |-> child.returncode = 0,
                        data |-> json_loads(child.stdout),
                        stdout |-> child.stdout,
                        stderr |-> child.stderr]
                  ELSE [success |-> child.returncode = 0,
                        stdout |-> child.stdout,
                        stderr |-> child.stderr]
    /\ pc' = "return"
    /\ UNCHANGED <<automation, lod, args, fs, environ, mainVars, callVars, blender_exe, cmd,
                   children, running, exc, probed>>

\* The inner try: json.loads(result.stdout), and the result either way.
Classify ==
    /\ pc = "classify"
    /\ LET child == children[Len(children)].does
       IN  ret' = IF IsJson(child.stdout)
                  THEN [success |-> child.returncode = 0,
                        data |-> json_loads(child.stdout),
                        stderr |-> child.stderr]
                  ELSE [success |-> child.returncode = 0,
                        stdout |-> child.stdout,
                        stderr |-> child.stderr]
    /\ pc' = "return"
    /\ UNCHANGED <<automation, lod, args, fs, environ, mainVars, callVars, blender_exe, cmd,
                   children, running, exc, probed>>

\* Mutant of Except: a timed-out run is started once more.
Except_RetriesTimeout ==
    /\ pc = "except"
    /\ IF exc.type = "TimeoutExpired" /\ Len(children) < 2
       THEN /\ pc' = "run"
            /\ UNCHANGED ret
       ELSE /\ ret' = [success |-> FALSE,
                       error |-> IF exc.type = "TimeoutExpired"
                                 THEN E_timed_out ELSE exc.msg]
            /\ pc' = "return"
    /\ UNCHANGED <<automation, lod, args, fs, environ, mainVars, callVars, blender_exe, cmd,
                   children, running, exc, probed>>

\* Mutant of Except: only the TimeoutExpired clause is there.
Except_TimeoutOnly ==
    /\ pc = "except"
    /\ IF exc.type = "TimeoutExpired"
       THEN /\ ret' = [success |-> FALSE, error |-> E_timed_out]
            /\ pc' = "return"
            /\ UNCHANGED exit_status
       ELSE /\ pc' = "crashed"
            /\ exit_status' = <<1>>
            /\ UNCHANGED ret
    /\ UNCHANGED <<automation, lod, args, fs, environ, result, out, callVars, blender_exe, cmd,
                   children, running, exc, probed>>

\* Mutant of Except: the timeout result keeps what the child wrote.
Except_SalvagesOutput ==
    /\ pc = "except"
    /\ IF exc.type = "TimeoutExpired"
       THEN ret' = [success |-> FALSE, error |-> E_timed_out,
                    stdout |-> children[Len(children)].does.stdout,
                    stderr |-> children[Len(children)].does.stderr]
       ELSE ret' = [success |-> FALSE, error |-> exc.msg]
    /\ pc' = "return"
    /\ UNCHANGED <<automation, lod, args, fs, environ, mainVars, callVars, blender_exe, cmd,
                   children, running, exc, probed>>

\* The except clauses of the outer try, in their order; an exception neither
\* clause catches leaves run_blender_script and main, and ends the process
\* with a traceback.
Except ==
    /\ pc = "except"
    /\ IF exc.type = "TimeoutExpired"
       THEN /\ ret' = [success |-> FALSE, error |-> E_timed_out]
            /\ pc' = "return"
            /\ UNCHANGED exit_status
       ELSE IF exc.type \in ExceptionClasses
       THEN /\ ret' = [success |-> FALSE, error |-> exc.msg]
            /\ pc' = "return"
            /\ UNCHANGED exit_status
       ELSE /\ pc' = "crashed"
            /\ exit_status' = <<1>>
            /\ UNCHANGED ret
    /\ UNCHANGED <<automation, lod, args, fs, environ, result, out, callVars, blender_exe, cmd,
                   children, running, exc, probed>>

-----------------------------------------------------------------------------
\* automation.py: the run of the worker script inside the child

\* str.endswith
EndsWith(s, suffix) ==
    /\ Len(s) >= Len(suffix)
    /\ SubSeq(s, Len(s) - Len(suffix) + 1, Len(s)) = suffix

\* str.split(c) for a separator of one character.
RECURSIVE Split(_, _)
Split(s, sep) ==
    IF \E i \in DOMAIN s : s[i] = sep[1]
    THEN LET first == CHOOSE i \in DOMAIN s :
                         /\ s[i] = sep[1]
                         /\ \A j \in 1..(i - 1) : s[j] # sep[1]
         IN  <<SubSeq(s, 1, first - 1)>>
                 \o Split(SubSeq(s, first + 1, Len(s)), sep)
    ELSE <<s>>

\* Path(p).stem: the last component of p without its last suffix.
Stem(p) ==
    LET slashes == {i \in DOMAIN p : p[i] = "/"}
        start == IF slashes = {} THEN 1
                 ELSE 1 + CHOOSE i \in slashes : \A j \in slashes : j <= i
        name == SubSeq(p, start, Len(p))
        dots == {i \in DOMAIN name : name[i] = "." /\ i > 1}
    IN  IF dots = {} THEN name
        ELSE SubSeq(name, 1, (CHOOSE i \in dots : \A j \in dots : j <= i) - 1)

\* os.path.join(d, name) for a relative name.
PathJoin(d, name) ==
    IF d = <<>> \/ d[Len(d)] = "/" THEN d \o name ELSE d \o <<"/">> \o name

\* What the lines printed on a stream make of it: each line and its newline.
RECURSIVE Lines(_)
Lines(ls) == IF ls = <<>> THEN <<>> ELSE Head(ls) \o <<"\n">> \o Lines(Tail(ls))

\* The script's arguments, its command and its files.
ScriptArgs == WorkerArgs(automation.argv)
ScriptCommand == ScriptArgs[1]
input_file == ScriptArgs[2]
output_file == ScriptArgs[3]
output_dir == ScriptArgs[3]
formats ==
    IF Len(ScriptArgs) > 3 THEN Split(ScriptArgs[4], A_comma)
    ELSE <<A_obj, A_fbx>>

\* The script is at one of its steps.
At(step) == pc = "child" /\ automation.at = step

scriptFrame ==
    <<lod, args, fs, environ, pc, mainVars, callVars, dispVars>>

\* Mutant of Guarded: a failed step ends the script with sys.exit(1).
Guarded_FailureExits(after, scene, exported, message) ==
    \E ok \in BOOLEAN :
        automation' =
            IF ok
            THEN [after EXCEPT !.scene = scene, !.exported = exported]
            ELSE [after EXCEPT !.at = "end", !.exit = "sys.exit(1)",
                               !.stderr = Append(@, message \o In_op_failed)]

\* A step that wraps its Blender operators in try/except: it succeeds with
\* the given effect on the scene and on the files exported, or an operator
\* raises, the message is printed on standard error and False is returned;
\* the caller does not look at the returned value and goes on either way.
Guarded(after, scene, exported, message) ==
    \E ok \in BOOLEAN :
        automation' =
            IF ok
            THEN [after EXCEPT !.scene = scene, !.exported = exported]
            ELSE [after EXCEPT !.stderr = Append(@, message \o In_op_failed)]

\* The script goes on at another step.
Goto(step) == [automation EXCEPT !.at = step]

\* Blender starts with its default scene.
DefaultScene ==
    <<Cube,
      [type |-> "LIGHT", name |-> In_name_Light, vertices |-> 0,
       polygons |-> <<>>],
      [type |-> "CAMERA", name |-> In_name_Camera, vertices |-> 0,
       polygons |-> <<>>]>>

\* subprocess.run starts Blender on a binary that is there, and Blender runs
\* the script; the wrapper is blocked until the child ends.
LaunchWorker ==
    /\ pc = "run"
    /\ cmd[1] \in fs
    /\ children' = Append(children,
                       [argv |-> cmd, worker |-> WorkerOutcome(cmd)])
    /\ running' = running \cup {Len(children) + 1}
    /\ automation' = [at |-> "main", argv |-> cmd, scene |-> DefaultScene,
                      todo |-> <<>>, exported |-> <<>>, stdout |-> <<>>,
                      stderr |-> <<>>, exit |-> "none"]
    /\ pc' = "child"
    /\ UNCHANGED <<lod, args, fs, environ, mainVars, callVars, blender_exe,
                   cmd, exc, ret, probed>>

\* main up to the branch of the command: the usage exit, the construction of
\* BlenderAutomation (whose _setup_scene deletes every object), the
\* positional arguments, and the unknown-command exit.
WorkerMain ==
    /\ At("main")
    /\ LET how == WorkerOutcome(automation.argv)
       IN  automation' =
             IF how = "usage"
             THEN [automation EXCEPT !.at = "end", !.exit = "sys.exit(1)",
                                     !.stderr = Append(@, A_usage)]
             ELSE IF how = "index_error"
             THEN [automation EXCEPT !.at = "end", !.exit = "exception",
                                     !.stderr = Append(@, In_traceback)]
             ELSE IF how = "unknown_command"
             THEN [automation EXCEPT !.at = "end", !.exit = "sys.exit(1)",
                      !.scene = EmptyScene,
                      !.stderr = Append(@, A_unknown_command \o ScriptCommand)]
             ELSE [automation EXCEPT !.at = "import", !.scene = EmptyScene,
                      !.todo = IF ScriptCommand = A_import_export
                               THEN formats ELSE <<>>]
    /\ UNCHANGED scriptFrame

\* The import of every branch: by the extension of the input file, and no
\* import at all for any other extension.
WorkerImport ==
    /\ At("import")
    /\ LET after == Goto(IF ScriptCommand = A_stats THEN "stats"
                         ELSE "cleanup")
       IN  IF EndsWith(input_file, A_dot_obj)
           THEN Guarded(after, ImportedScene, automation.exported,
                        A_err_import_obj)
           ELSE IF EndsWith(input_file, A_dot_fbx)
           THEN Guarded(after, ImportedScene, automation.exported,
                        A_err_import_fbx)
           ELSE automation' = after
    /\ UNCHANGED scriptFrame

\* automation.cleanup_mesh()
WorkerCleanup ==
    /\ At("cleanup")
    /\ Guarded(Goto(IF ScriptCommand = A_cleanup THEN "unwrap" ELSE "export"),
               automation.scene, automation.exported, A_err_cleanup)
    /\ UNCHANGED scriptFrame

\* automation.unwrap_uvs(method='smart')
WorkerUnwrap ==
    /\ At("unwrap")
    /\ Guarded(Goto("export"), automation.scene, automation.exported,
               A_err_unwrap)
    /\ UNCHANGED scriptFrame

\* import_export: one turn of the loop over the formats, which exports for a
\* known format and does nothing for any other. cleanup: the export by the
\* extension of the output file.
WorkerExport ==
    /\ At("export")
    /\ IF ScriptCommand = A_import_export
       THEN IF automation.todo = <<>>
            THEN automation' = Goto("stats")
            ELSE LET fmt == Head(automation.todo)
                     output_path ==
                         PathJoin(output_dir,
                                  Stem(input_file) \o <<".">> \o fmt)
                     after == [automation EXCEPT !.todo = Tail(@)]
                     written == Append(automation.exported, output_path)
                 IN  IF fmt = A_obj
                     THEN Guarded(after, automation.scene, written,
                                  A_err_export_obj)
                     ELSE IF fmt = A_fbx
                     THEN Guarded(after, automation.scene, written,
                                  A_err_export_fbx)
                     ELSE IF fmt \in {A_gltf, A_glb}
                     THEN Guarded(after, automation.scene, written,
                                  A_err_export_gltf)
                     ELSE IF fmt = A_dae
                     THEN Guarded(after, automation.scene, written,
                                  A_err_export_dae)
                     ELSE automation' = after
       ELSE LET written == Append(automation.exported, output_file)
            IN  IF EndsWith(output_file, A_dot_obj)
                THEN Guarded(Goto("stats"), automation.scene, written,
                             A_err_export_obj)
                ELSE IF EndsWith(output_file, A_dot_fbx)
                THEN Guarded(Goto("stats"), automation.scene, written,
                             A_err_export_fbx)
                ELSE automation' = Goto("stats")
    /\ UNCHANGED scriptFrame

\* stats = automation.get_mesh_stats(); print(json.dumps(stats))
WorkerStats ==
    /\ At("stats")
    /\ automation' =
         [automation EXCEPT !.at = "end",
             !.stdout = Append(@, JsonData(get_mesh_stats(automation.scene)))]
    /\ UNCHANGED scriptFrame

\* The exit codes Blender can end with: 1 after sys.exit(1), 0 after the
\* script ran to its end, and either after an uncaught exception.
ExitCodes(exit) ==
    IF exit = "sys.exit(1)" THEN {1}
    ELSE IF exit = "none" THEN {0}
    ELSE {0, 1}

\* The child ends: it took a second or longer than the timeout, and its
\* streams hold what the script printed, with or without Blender's own lines
\* around it on standard output.
WorkerExit ==
    /\ At("end")
    /\ \E d \in Durations, code \in ExitCodes(automation.exit),
          noisy \in BOOLEAN :
          children' =
            [children EXCEPT ![Len(children)] =
               [argv |-> @.argv, worker |-> @.worker,
                does |->
                  [duration |-> d, returncode |-> code,
                   stdout |->
                       IF noisy
                       THEN In_blender_banner \o Lines(automation.stdout)
                                \o In_blender_quit
                       ELSE Lines(automation.stdout),
                   stderr |-> Lines(automation.stderr)]]]
    /\ automation' = Goto("done")
    /\ pc' = "wait"
    /\ UNCHANGED <<lod, args, fs, environ, mainVars, callVars, blender_exe,
                   cmd, running, exc, ret, probed>>

-----------------------------------------------------------------------------
\* Reading a printed line back, as the caller of the wrapper does

\* Where to cut an escaped text of three characters or more in two: near the
\* middle, and not between a backslash and the character it escapes (a
\* backslash escapes the next character when the backslashes that end with it
\* are odd in number).
CutPoint(s) ==
    LET mid == Len(s) \div 2
        others == {j \in 1..mid : s[j] # "\\"}
        last == IF others = {} THEN 0
                ELSE CHOOSE j \in others : \A k \in others : k <= j
    IN  IF (mid - last) % 2 = 1 THEN mid + 1 ELSE mid

UnescapeChar(c) == IF c = "n" THEN "\n" ELSE c

RECURSIVE Unescape(_)
Unescape(s) ==
    IF Len(s) <= 1 THEN s
    ELSE IF Len(s) = 2
    THEN IF s[1] = "\\" THEN <<UnescapeChar(s[2])>> ELSE s
    ELSE LET cut == CutPoint(s)
         IN  Unescape(SubSeq(s, 1, cut)) \o Unescape(SubSeq(s, cut + 1, Len(s)))

\* The characters between the quotes of a JSON string are complete: no bare
\* quote, no bare line break, no backslash left alone at the end.
RECURSIVE EscapedOk(_)
EscapedOk(s) ==
    IF s = <<>> THEN TRUE
    ELSE IF Len(s) = 1 THEN s[1] \notin {"\\", "\"", "\n"}
    ELSE IF Len(s) = 2
    THEN IF s[1] = "\\" THEN s[2] \in {"\\", "\"", "n"}
         ELSE s[1] \notin {"\"", "\n"} /\ s[2] \notin {"\\", "\"", "\n"}
    ELSE LET cut == CutPoint(s)
         IN  /\ EscapedOk(SubSeq(s, 1, cut))
             /\ EscapedOk(SubSeq(s, cut + 1, Len(s)))

IsJsonStringText(t) ==
    /\ Len(t) >= 2
    /\ t[1] = "\""
    /\ t[Len(t)] = "\""
    /\ EscapedOk(SubSeq(t, 2, Len(t) - 1))

\* A printed line is one complete JSON object holding a result: its keys are
\* distinct, success is among them and is a JSON boolean, and every value is
\* a complete JSON text.
IsResultObject(line) ==
    /\ Len(line) >= 1
    /\ \A i, j \in DOMAIN line : line[i][1] = line[j][1] => i = j
    /\ \E i \in DOMAIN line : line[i][1] = "success"
    /\ \A i \in DOMAIN line :
          IF line[i][1] = "success" THEN line[i][2] \in {J_true, J_false}
          ELSE IF line[i][1] = "data" THEN IsJson(line[i][2])
          ELSE IsJsonStringText(line[i][2])

ParseValue(k, text) ==
    IF k = "success" THEN text = J_true
    ELSE IF k = "data" THEN json_loads(text)
    ELSE Unescape(SubSeq(text, 2, Len(text) - 1))

ParseLine(line) ==
    [k \in {line[i][1] : i \in DOMAIN line} |->
        LET i == CHOOSE n \in DOMAIN line : line[n][1] = k
        IN  ParseValue(k, line[i][2])]

\* The result the run printed.
Emitted == ParseLine(out[1])

\* The one child of the run, once it is started.
TheChild == children[1].does

-----------------------------------------------------------------------------
Next ==
    \/ MainImportExport
    \/ MainCleanup
    \/ MainStats
    \/ MainOptimize
    \/ MainGenerateLods
    \/ MainBakeTextures
    \/ MainUnknown
    \/ MainReturn
    \/ MainOutput
    \/ Probe
    \/ BinaryDisappears
    \/ Launch
    \/ Wait
    \/ Classify
    \/ Except

Spec == Init /\ [][Next]_vars

-----------------------------------------------------------------------------
\* The wrapper with the worker script followed inside the child: the three
\* commands that reach the worker, with files of a supported and of an
\* unsupported extension.
WorkerNamespaces ==
    [command : {S_import_export, S_cleanup, S_stats},
     input : {In_model_obj, In_model_fbx, In_model_stl},
     output : {In_out, In_out_obj},
     formats : {None, In_glb, In_obj_dae_xyz},
     platform : {None}]

InitWorker ==
    /\ args \in WorkerNamespaces
    /\ fs = {S_usr_bin_blender}
    /\ environ = None
    /\ pc = "main"
    /\ result = NoneDict
    /\ out = <<>>
    /\ exit_status = <<>>
    /\ calls = 0
    /\ script_name = None
    /\ call_args = <<>>
    /\ blender_exe = None
    /\ cmd = <<>>
    /\ children = <<>>
    /\ running = {}
    /\ exc = NoneDict
    /\ ret = NoneDict
    /\ probed = {}
    /\ automation = NoScript
    /\ lod = NoCall

NextWorker ==
    \/ MainImportExport
    \/ MainCleanup
    \/ MainStats
    \/ MainReturn
    \/ MainOutput
    \/ Probe
    \/ LaunchWorker
    \/ WorkerMain
    \/ WorkerImport
    \/ WorkerCleanup
    \/ WorkerUnwrap
    \/ WorkerExport
    \/ WorkerStats
    \/ WorkerExit
    \/ Wait
    \/ Classify
    \/ Except

SpecWorker == InitWorker /\ [][NextWorker]_vars

-----------------------------------------------------------------------------
\* lod_generator.py: LODGenerator.calculate_land_impact

\* name.split('_lod')[-1]: what follows the last '_lod' of the name.
LodLevel(name) ==
    LET starts == {i \in 1..(Len(name) - Len(L_lod_sep) + 1) :
                      SubSeq(name, i, i + Len(L_lod_sep) - 1) = L_lod_sep}
        last == CHOOSE i \in starts : \A j \in starts : j <= i
    IN  SubSeq(name, last + Len(L_lod_sep), Len(name))

\* The dict lod_counts: for each mesh object whose name holds '_lod', in the
\* order of the scene, the key 'lod' + level is set to the number of the
\* object's polygons, so the last object of a key gives its value.
LodCounts(mesh_objects) ==
    LET IsLevel(o) == Contains(o.name, L_lod_sep)
        levels == SelectSeq(mesh_objects, IsLevel)
        key(i) == L_lod \o LodLevel(levels[i].name)
    IN  [k \in {key(i) : i \in DOMAIN levels} |->
            LET last == CHOOSE i \in DOMAIN levels :
                           /\ key(i) = k
                           /\ \A j \in DOMAIN levels : j > i => key(j) # k
            IN  Len(levels[last].polygons)]

\* The sum of the values of a dict.
RECURSIVE SumValues(_)
SumValues(d) ==
    IF DOMAIN d = {} THEN 0
    ELSE LET k == CHOOSE x \in DOMAIN d : TRUE
         IN  d[k] + SumValues([x \in DOMAIN d \ {k} |-> d[x]])

\* A weight is kept as a fraction; max of two fractions; round(q, n) as the
\* number of units of 1/scale nearest to q (scale = 10^n).
Fraction(num, den) == [num |-> num, den |-> den]

MaxFraction(p, q) == IF p.num * q.den >= q.num * p.den THEN p ELSE q

Round(q, scale) == (2 * q.num * scale + q.den) \div (2 * q.den)

\* calculate_land_impact on a scene: the dict it returns, or the exception
\* it raises. The division by len(lod_counts) raises ZeroDivisionError when
\* the dict is empty.
calculate_land_impact(scene) ==
    LET IsMesh(o) == o.type = "MESH"
        mesh_objects == SelectSeq(scene, IsMesh)
        lod_counts == LodCounts(mesh_objects)
        n == Cardinality(DOMAIN lod_counts)
    IN  IF mesh_objects = <<>>
        THEN [raised |-> "none", value |-> [k \in {} |-> 0]]
        ELSE IF n = 0
        THEN [raised |-> "ZeroDivisionError"]
        ELSE LET download_weight == Fraction(6 * SumValues(lod_counts), 100 * n)
                 lod3 == IF L_lod3 \in DOMAIN lod_counts
                         THEN lod_counts[L_lod3] ELSE 0
                 physics_weight == Fraction(4 * lod3, 100)
                 server_weight == MaxFraction(download_weight, physics_weight)
                 land_impact == MaxFraction(server_weight, Fraction(1, 1))
             IN  [raised |-> "none",
                  value |->
                    [download_weight |-> Round(download_weight, 100),
                     physics_weight |-> Round(physics_weight, 100),
                     server_weight |-> Round(server_weight, 100),
                     estimated_land_impact |-> Round(land_impact, 10),
                     lod_counts |-> lod_counts]]

\* The scenes the method is called on: at most MaxObjects objects, each a
\* mesh of no, one or fifty polygons whose name is or is not that of a level
\* of detail, or an object that is no mesh.
MaxObjects == 2

LodObjects ==
    [type : {"MESH"}, name : {In_name_Cube, In_Cube_lod0, In_Cube_lod3},
     vertices : {8}, polygons : {<<>>, <<4>>, [i \in 1..50 |-> 4]}]
    \cup {[type |-> "CAMERA", name |-> In_name_Camera, vertices |-> 0,
           polygons |-> <<>>]}

LodScenes == UNION {[1..n -> LodObjects] : n \in 0..MaxObjects}

\* A caller calls the method on the scene and gets the dict or the exception.
CalculateLandImpact ==
    /\ lod.at = "called"
    /\ lod' = LET outcome == calculate_land_impact(lod.scene)
              IN  IF outcome.raised = "none"
                  THEN [at |-> "returned", scene |-> lod.scene,
                        value |-> outcome.value]
                  ELSE [at |-> "raised", scene |-> lod.scene,
                        exception |-> outcome.raised]
    /\ UNCHANGED <<automation, args, fs, environ, pc, mainVars, callVars,
                   dispVars>>

InitLod ==
    /\ lod \in [at : {"called"}, scene : LodScenes]
    /\ automation = NoScript
    /\ args = [command |-> S_stats, input |-> None, output |-> None,
               formats |-> None, platform |-> None]
    /\ fs = {}
    /\ environ = None
    /\ pc = "main"
    /\ result = NoneDict
    /\ out = <<>>
    /\ exit_status = <<>>
    /\ calls = 0
    /\ script_name = None
    /\ call_args = <<>>
    /\ blender_exe = None
    /\ cmd = <<>>
    /\ children = <<>>
    /\ running = {}
    /\ exc = NoneDict
    /\ ret = NoneDict
    /\ probed = {}

NextLod == CalculateLandImpact

SpecLod == InitLod /\ [][NextLod]_vars

-----------------------------------------------------------------------------
\* The claims about the Router

\* The options the Router declares as required for a dispatched command.
RequiredOptions(c) ==
    IF c \in {S_import_export, S_cleanup} THEN {"input", "output"}
    ELSE IF c = S_stats THEN {"input"}
    ELSE {}

\* The required options this run was started without.
MissingOptions == {o \in RequiredOptions(args.command) : args[o] = None}

OptionWord(o) ==
    IF o = "input" THEN W_input
    ELSE IF o = "output" THEN W_output
    ELSE W_platform

Stopped == pc = "exited"

\* C1: a command with a declared required-option set (import_export, cleanup,
\* stats) started without one of its required options never calls the
\* Dispatcher and starts no child; it ends after printing one result with
\* success false whose error names every missing option, with exit code 1.
C1_MissingOptionRejected ==
    MissingOptions # {} =>
        /\ calls = 0
        /\ children = <<>>
        /\ pc \in {"main", "exited"}
        /\ Stopped =>
              /\ Len(out) = 1
              /\ DOMAIN Emitted = {"success", "error"}
              /\ Emitted.success = FALSE
              /\ \A o \in MissingOptions : Contains(Emitted.error, OptionWord(o))
              /\ exit_status = <<1>>

C1_Witness ==
    /\ Stopped
    /\ args.command = S_import_export
    /\ args.input = None
    /\ args.output = In_out
    /\ exit_status = <<1>>
    /\ Contains(Emitted.error, W_input)

StubCommands == {S_optimize, S_generate_lods, S_bake_textures}

\* C2, as stated: a stub command always ends with success true and a message
\* that contains the command name and "to be implemented", and the
\* Dispatcher is never called.
C2_StubAlwaysSucceedsNamingCommand ==
    args.command \in StubCommands =>
        /\ calls = 0
        /\ Stopped =>
              /\ Emitted.success = TRUE
              /\ "message" \in DOMAIN Emitted
              /\ Contains(Emitted.message, args.command)
              /\ Contains(Emitted.message, W_to_be_implemented)

\* The options a stub command checks before it answers, and the words its
\* message describes the operation with.
StubOptions(c) ==
    IF c = S_optimize THEN {"input", "output", "platform"}
    ELSE {"input", "output"}

StubTitle(c) ==
    IF c = S_optimize THEN W_Optimization
    ELSE IF c = S_generate_lods THEN W_LOD_generation
    ELSE W_Texture_baking

\* C2, amended: a stub command never calls the Dispatcher; given all the
\* options it checks (input and output, and platform for optimize), each
\* non-empty, it ends with success true, exit code 0 and a message that
\* contains "to be implemented" and describes the operation (Optimization,
\* LOD generation, Texture baking) without containing the command name.
C2_StubSucceedsGivenOptions ==
    args.command \in StubCommands =>
        /\ calls = 0
        /\ children = <<>>
        /\ (Stopped /\ \A o \in StubOptions(args.command) : Truthy(args[o])) =>
              /\ Len(out) = 1
              /\ DOMAIN Emitted = {"success", "message"}
              /\ Emitted.success = TRUE
              /\ Contains(Emitted.message, W_to_be_implemented)
              /\ Contains(Emitted.message, StubTitle(args.command))
              /\ ~Contains(Emitted.message, args.command)
              /\ exit_status = <<0>>

C2_Witness ==
    /\ Stopped
    /\ args.command = S_optimize
    /\ \A o \in StubOptions(S_optimize) : Truthy(args[o])
    /\ Emitted.success = TRUE
    /\ exit_status = <<0>>

\* C3: a command name outside the six supported ones, whatever the options,
\* ends with the result {success: false, error: "Unknown command: <name>"},
\* exit code 1, and no call of the Dispatcher.
C3_UnknownCommand ==
    args.command \notin Commands =>
        /\ calls = 0
        /\ children = <<>>
        /\ pc \in {"main", "output", "exited"}
        /\ Stopped =>
              /\ Len(out) = 1
              /\ Emitted = [success |-> FALSE,
                            error |-> W_unknown_command \o args.command]
              /\ exit_status = <<1>>

C3_Witness ==
    /\ Stopped
    /\ args.command = In_Stats
    /\ args.input = In_model_obj
    /\ Emitted.error = W_unknown_command \o In_Stats
    /\ exit_status = <<1>>

\* The five kinds of failure, read off the inputs and the child.
ValidationFailed ==
    \E o \in RequiredOptions(args.command) \cup
             (IF args.command \in StubCommands THEN StubOptions(args.command)
              ELSE {}) : ~Truthy(args[o])
BinaryNotFound == calls = 1 /\ pc # "probe" /\ probed \cap Items(blender_paths) = {}
ChildTimedOut == children # <<>> /\ TheChild.duration > Timeout
ChildFailed ==
    children # <<>> /\ TheChild.duration <= Timeout /\ TheChild.returncode # 0
UnknownCommand == args.command \notin Commands

\* C4: a run that has ended has exit code 0 if the result it printed has
\* success true and exit code 1 otherwise; every kind of failure (validation,
\* binary not found, timeout, non-zero exit of the child, unknown command)
\* ends with exit code 1.
C4_ExitCodeReflectsSuccess ==
    Stopped =>
        /\ Len(out) = 1
        /\ exit_status = <<IF Emitted.success THEN 0 ELSE 1>>
        /\ (ValidationFailed \/ BinaryNotFound \/ ChildTimedOut \/ ChildFailed
              \/ UnknownCommand) => exit_status = <<1>>

C4_Witness ==
    /\ Stopped
    /\ ChildFailed
    /\ IsJson(TheChild.stdout)
    /\ Emitted.success = FALSE
    /\ exit_status = <<1>>

\* C5: a run never prints more than one line and never ends by an exception
\* that escapes; when it has ended, whichever path it took, it has printed
\* exactly one line, a complete JSON object holding a result.
C5_ExactlyOneJsonResult ==
    /\ Len(out) <= 1
    /\ pc # "crashed"
    /\ exit_status # <<>> => Stopped
    /\ Stopped => Len(out) = 1 /\ IsResultObject(out[1])
    /\ ~Stopped => out = <<>>

C5_Witness ==
    /\ Stopped
    /\ calls = 1
    /\ children # <<>>
    /\ TheChild.stdout = In_banner_json
    /\ TheChild.duration <= Timeout
    /\ Len(out) = 1

\* C6: when the Router has dispatched, the line it prints reads back as
\* exactly the value the Dispatcher returned, and the exit code is 0 if that
\* value has success true and 1 otherwise.
C6_DispatchedResultUnmodified ==
    (Stopped /\ calls >= 1) =>
        /\ Len(out) = 1
        /\ Emitted = ret
        /\ exit_status = <<IF ret.success THEN 0 ELSE 1>>

C6_Witness ==
    /\ Stopped
    /\ args.command = S_stats
    /\ args.input = In_model_obj
    /\ ret = [success |-> TRUE, data |-> PyStats, stderr |-> <<>>]
    /\ Emitted = ret
    /\ exit_status = <<0>>

\* C7: run_blender_script is called at most once in a run.
C7_AtMostOneDispatcherCall == calls <= 1

C7_Witness ==
    /\ Stopped
    /\ calls = 1
    /\ children # <<>>
    /\ ChildFailed

-----------------------------------------------------------------------------
\* The claims about the Dispatcher

Probed == calls >= 1 /\ pc # "probe"
Returned == pc \in {"return", "output", "exited"}

\* C8: when none of the candidate paths exists at the probe, the Dispatcher
\* returns, for every script and argument list, success false with an error
\* that mentions "not found", and starts no child.
C8_NotFound ==
    (Probed /\ probed \cap Items(blender_paths) = {}) =>
        /\ Returned
        /\ children = <<>>
        /\ DOMAIN ret = {"success", "error"}
        /\ ret.success = FALSE
        /\ Contains(ret.error, W_not_found)

C8_Witness ==
    /\ Stopped
    /\ calls = 1
    /\ args.command = S_import_export
    /\ probed = {}
    /\ Contains(Emitted.error, W_not_found)

\* C9, as stated: with BLENDER_PATH naming a path that exists and no default
\* install path present, the Dispatcher resolves the binary to that path and
\* does not return the not-found error.
C9_OverrideHonoured ==
    (Probed /\ environ # None /\ environ \in probed
        /\ probed \cap Items(blender_paths) = {}) =>
        /\ blender_exe = environ
        /\ ~(Returned /\ "error" \in DOMAIN ret /\ Contains(ret.error, W_not_found))

\* C10: when the child runs past the timeout of 300 seconds, the Dispatcher
\* returns success false with an error that mentions "timed out" and nothing
\* else: no data, stdout or stderr of the child.
C10_TimedOut ==
    (ChildTimedOut /\ Returned) =>
        /\ DOMAIN ret = {"success", "error"}
        /\ ret.success = FALSE
        /\ Contains(ret.error, W_timed_out)

C10_Witness ==
    /\ Stopped
    /\ ChildTimedOut
    /\ TheChild.stdout = In_stats_json
    /\ TheChild.stderr = In_boom
    /\ Contains(Emitted.error, W_timed_out)

\* The child was started and ran to its end within the timeout.
ChildCompleted == children # <<>> /\ TheChild.duration <= Timeout

\* C11: when the child has started and completed, the Dispatcher's result
\* has success equal to (exit code = 0) and carries what the child wrote on
\* stdout in exactly one form, whatever the exit code: as data, the parsed
\* value, with no stdout field, when the text parses as JSON; otherwise as
\* stdout, the raw text, with no data field.
C11_CompletedChildOutputKept ==
    (ChildCompleted /\ Returned) =>
        /\ ret.success = (TheChild.returncode = 0)
        /\ IF IsJson(TheChild.stdout)
           THEN /\ "data" \in DOMAIN ret
                /\ "stdout" \notin DOMAIN ret
                /\ JsonData(ret.data) = TheChild.stdout
           ELSE /\ "stdout" \in DOMAIN ret
                /\ "data" \notin DOMAIN ret
                /\ ret.stdout = TheChild.stdout

C11_Witness ==
    /\ Stopped
    /\ ChildCompleted
    /\ TheChild.returncode = 1
    /\ TheChild.stdout = In_done
    /\ Emitted.stdout = In_done
    /\ Emitted.success = FALSE

\* C12, as stated: whenever a child was started, whether it succeeded, exited
\* non-zero or was terminated, the Dispatcher's result carries the stderr the
\* child produced.
C12_StderrAlwaysKept ==
    (children # <<>> /\ Returned) =>
        /\ "stderr" \in DOMAIN ret
        /\ ret.stderr = TheChild.stderr

\* C12, amended: whenever a child was started and ran to completion, with
\* exit code zero or not, the Dispatcher's result carries the stderr the child
\* produced; the result for a child terminated by the timeout carries no
\* stderr.
C12_StderrKeptWhenCompleted ==
    /\ (ChildCompleted /\ Returned) =>
          /\ "stderr" \in DOMAIN ret
          /\ ret.stderr = TheChild.stderr
          /\ Stopped => Emitted.stderr = TheChild.stderr
    /\ (ChildTimedOut /\ Returned) => "stderr" \notin DOMAIN ret

C12_Witness ==
    /\ Stopped
    /\ ChildCompleted
    /\ TheChild.returncode = 0
    /\ TheChild.stderr = In_boom
    /\ Emitted.success = TRUE
    /\ Emitted.stderr = In_boom

\* A result with an error has success false.
ErrorMeansFailure(r) == "error" \in DOMAIN r => r.success = FALSE

\* C13: no result of the Dispatcher or of the Router has success true
\* together with an error field, or for a child that completed with a
\* non-zero exit code.
C13_SuccessFalseOnError ==
    /\ ret # NoneDict => ErrorMeansFailure(ret)
    /\ result # NoneDict => ErrorMeansFailure(result)
    /\ out # <<>> => ErrorMeansFailure(Emitted)
    /\ (ChildFailed /\ Returned) => ret.success = FALSE
    /\ (ChildFailed /\ Stopped) => result.success = FALSE /\ Emitted.success = FALSE

C13_Witness ==
    /\ Stopped
    /\ ChildFailed
    /\ TheChild.stdout = In_stats_json
    /\ "error" \notin DOMAIN Emitted
    /\ Emitted.success = FALSE

\* The payload alternatives a result carries.
Payload(r) == {k \in {"data", "stdout", "error"} : k \in DOMAIN r}

\* C14, as stated: every result emitted carries exactly one of data (with
\* stdout absent), stdout, error.
C14_ExactlyOnePayload == Stopped => Cardinality(Payload(Emitted)) = 1

\* C14, amended: every result emitted for an outcome other than a stub
\* (reject, unknown command, not found, timeout, launch failure, completed
\* child) carries exactly one of data (with stdout absent), stdout, error; the
\* result of a stub command that passed validation carries none of them, only
\* its message.
C14_OnePayloadUnlessStub ==
    Stopped =>
        IF args.command \in StubCommands /\ ~ValidationFailed
        THEN Payload(Emitted) = {} /\ "message" \in DOMAIN Emitted
        ELSE Cardinality(Payload(Emitted)) = 1 /\ "message" \notin DOMAIN Emitted

C14_Witness ==
    /\ Stopped
    /\ ChildCompleted
    /\ TheChild.stdout = In_null
    /\ Payload(Emitted) = {"data"}

\* The launch raised an OSError: no child came to run.
LaunchFailed ==
    /\ exc # NoneDict
    /\ exc.type \in {"FileNotFoundError", "PermissionError"}

\* C15, as stated: a returned Dispatcher call has spawned exactly one child
\* and waited for it.
C15_ExactlyOneChild ==
    (calls >= 1 /\ Returned) => Len(children) = 1 /\ running = {}

\* C15, amended: a Dispatcher call spawns at most one child: exactly one when
\* a candidate binary is found and the launch succeeds, none when no binary
\* is found or the launch fails. It waits for the child: it returns only once
\* the child has finished or has been killed at the timeout. No outcome
\* (non-zero exit, timeout, launch failure) makes it spawn a second child.
C15_AtMostOneChildAwaited ==
    /\ Len(children) <= calls
    /\ running \subseteq DOMAIN children
    /\ (calls >= 1 /\ Returned) =>
          /\ running = {}
          /\ Len(children) =
                IF probed \cap Items(blender_paths) = {} \/ LaunchFailed
                THEN 0 ELSE 1
    /\ pc = "wait" <=> running # {}

C15_Witness ==
    /\ Stopped
    /\ ChildTimedOut
    /\ Len(children) = 1
    /\ running = {}

\* C16: when the binary the probe resolved is gone at the launch, or may not
\* be executed, the failure is caught inside the Dispatcher, which returns
\* success false with the error message; the process never ends by the
\* exception.
C16_LaunchFailureCaught ==
    /\ pc # "crashed"
    /\ (Probed /\ Truthy(blender_exe) /\ blender_exe \notin fs /\ pc # "run") =>
          /\ LaunchFailed
          /\ children = <<>>
          /\ Returned => Contains(ret.error, blender_exe)
    /\ LaunchFailed =>
          /\ pc \in {"except", "return", "output", "exited"}
          /\ Returned =>
                /\ DOMAIN ret = {"success", "error"}
                /\ ret.success = FALSE
                /\ ret.error = exc.msg
                /\ ret.error # <<>>
          /\ Stopped => Emitted = ret /\ exit_status = <<1>>

C16_Witness ==
    /\ Stopped
    /\ blender_exe = S_usr_bin_blender
    /\ S_usr_bin_blender \in probed
    /\ S_usr_bin_blender \notin fs
    /\ Emitted.success = FALSE
    /\ Contains(Emitted.error, S_usr_bin_blender)

\* The candidates that come after path p in the list.
After(p) ==
    {blender_paths[j] : j \in {k \in DOMAIN blender_paths :
        \E i \in DOMAIN blender_paths : blender_paths[i] = p /\ k > i}}

\* The earliest candidate of the list that existed at the probe.
Earliest ==
    blender_paths[CHOOSE i \in DOMAIN blender_paths :
        /\ blender_paths[i] \in probed
        /\ \A j \in 1..(i - 1) : blender_paths[j] \notin probed]

\* C17: when some candidates exist, the Dispatcher selects the earliest of
\* them in the order of the list and launches that one; which of the later
\* candidates exist makes no difference to the selection.
C17_FirstExistingSelected ==
    (Probed /\ probed \cap Items(blender_paths) # {}) =>
        /\ blender_exe = Earliest
        /\ cmd[1] = Earliest
        /\ children # <<>> => children[1].argv[1] = Earliest
        /\ \A later \in SUBSET After(Earliest) :
              FirstExisting(blender_paths, (probed \ After(Earliest)) \cup later)
                 = blender_exe

C17_Witness ==
    /\ Stopped
    /\ probed = {S_usr_local_bin_blender, S_win_blender}
    /\ children # <<>>
    /\ children[1].argv[1] = S_usr_local_bin_blender

\* The argument list the Router is to pass for a dispatched command.
RouterArguments ==
    IF args.command = S_import_export
    THEN <<args.command, args.input, args.output,
           IF args.formats \in {None, <<>>} THEN W_obj_fbx ELSE args.formats>>
    ELSE IF args.command = S_cleanup
    THEN <<args.command, args.input, args.output>>
    ELSE <<args.command, args.input>>

\* C18: the command line of the child of a dispatched command is the host
\* binary, --background, --python, the script automation.py beside the
\* wrapper, --, and then the Router's arguments in order: the command, the
\* input, for import_export and cleanup the output, and for import_export the
\* formats, "obj,fbx" when none are given.
C18_ChildCommandLine ==
    /\ cmd # <<>> =>
          cmd = <<blender_exe, W_background, W_python,
                  In_module_dir \o <<"/">> \o W_automation_py, W_separator>>
                \o RouterArguments
    /\ \A i \in DOMAIN children :
          /\ children[i].argv = cmd
          /\ \A j \in DOMAIN cmd : cmd[j] = W_separator => j >= 5

C18_Witness ==
    /\ Stopped
    /\ args.command = S_import_export
    /\ args.formats = None
    /\ children # <<>>
    /\ Len(children[1].argv) = 9
    /\ children[1].argv[9] = W_obj_fbx
    /\ children[1].argv[7] = In_model_obj

\* The Router has gone the way of a dispatch: it has called the Dispatcher.
Dispatched == calls >= 1

\* C19: a run validates, then rejects, stubs or dispatches, then serializes,
\* then exits: a call of the Dispatcher or a child is there only for a
\* command that passed validation; a line is printed only when no child is
\* running and, after a dispatch, the Dispatcher has returned; and once a line
\* is printed the process has exited, and nothing more is printed, called or
\* launched.
C19_Order ==
    /\ [](/\ (Dispatched \/ children # <<>>) =>
                /\ ~ValidationFailed
                /\ args.command \in {S_import_export, S_cleanup, S_stats}
          /\ out # <<>> =>
                /\ Stopped
                /\ running = {}
                /\ Dispatched => (ret # NoneDict /\ result = ret)
                /\ ~Dispatched => children = <<>>)
    /\ [][out # <<>> =>
            out' = out /\ children' = children /\ calls' = calls]_vars

C19_Witness ==
    /\ Stopped
    /\ Dispatched
    /\ ChildCompleted
    /\ running = {}
    /\ Len(out) = 1

\* C20: every child the Router has launched was given a command line the
\* worker script reads to the end: the command is one its main knows and
\* every positional argument it reads for that command is there, so it
\* reaches neither its usage exit, nor its unknown-command exit, nor an
\* IndexError.
C20_WorkerProtocol ==
    /\ cmd # <<>> => WorkerOutcome(cmd) = "ok"
    /\ \A i \in DOMAIN children :
          /\ children[i].worker = "ok"
          /\ WorkerArgs(children[i].argv)[1] \in
                {A_import_export, A_cleanup, A_stats}
          /\ WorkerArgs(children[i].argv) = call_args

C20_Witness ==
    /\ Stopped
    /\ args.command = S_cleanup
    /\ children # <<>>
    /\ children[1].worker = "ok"
    /\ Len(WorkerArgs(children[1].argv)) = 3

-----------------------------------------------------------------------------
\* The claims about the worker script

\* The input file has an extension the worker imports nothing for.
UnsupportedInput ==
    /\ ~EndsWith(input_file, A_dot_obj)
    /\ ~EndsWith(input_file, A_dot_fbx)

\* The run of the script is followed, and it has reached its end.
ScriptFollowed == automation.at # "none"
ScriptEnded == automation.at \in {"end", "done"}

\* C21: a worker run for import_export, cleanup or stats never takes a
\* failing exit and never prints more than one line on standard output, also
\* when the input has an unsupported extension or an import, cleanup, unwrap
\* or export step failed; at its end it has printed exactly one line, the
\* JSON object of the statistics of the scene; the child then exits with
\* code 0, and when it ended within the timeout the Router's result has
\* success true and the wrapper exits with status 0.
C21_WorkerReportsStatsDespiteFailures ==
    ScriptFollowed =>
        /\ automation.exit = "none"
        /\ Len(automation.stdout) <= 1
        /\ ScriptEnded =>
              /\ Len(automation.stdout) = 1
              /\ IsJson(automation.stdout[1])
              /\ json_loads(automation.stdout[1])
                     = get_mesh_stats(automation.scene)
              /\ "mesh_count" \in DOMAIN json_loads(automation.stdout[1])
        /\ automation.at = "done" => TheChild.returncode = 0
        /\ (Stopped /\ TheChild.duration <= Timeout) =>
              /\ Emitted.success = TRUE
              /\ exit_status = <<0>>

\* An unsupported extension (nothing imported), a failed cleanup and two
\* failed exports, and still a result of success true.
C21_Witness ==
    /\ Stopped
    /\ automation.at = "done"
    /\ args.command = S_import_export
    /\ UnsupportedInput
    /\ Len(automation.stderr) = 3
    /\ automation.exported = <<>>
    /\ automation.stdout = <<A_stats_none>>
    /\ TheChild.duration <= Timeout
    /\ Emitted.success = TRUE
    /\ exit_status = <<0>>

-----------------------------------------------------------------------------
\* The claims about the LOD generator

\* C22: a call of calculate_land_impact never raises: on every scene it
\* returns the empty dict or a dict of metrics, also on a scene that holds
\* mesh objects none of whose names contains '_lod'.
C22_LandImpactNeverRaises ==
    /\ lod.at # "raised"
    /\ lod.at = "returned" =>
          \/ DOMAIN lod.value = {}
          \/ "estimated_land_impact" \in DOMAIN lod.value

====
